---- MODULE Spec2Model ----
(***************************************************************************)
(* A model of result-script: the synchronous Result container              *)
(* (result.ts) and its asynchronous counterpart ResultAsync                *)
(* (resultAsync.ts), a Promise subclass with map / mapErr / andThen.       *)
(*                                                                         *)
(* Two state machines share this module.                                   *)
(*   Spec      - a caller holding one Result and calling one of its        *)
(*               methods per step: the constructor, the queries, the       *)
(*               combinators and the extraction methods.                   *)
(*   SpecAsync - one ResultAsync chain: a source (OkAsync, ErrAsync,       *)
(*               fromPromise, fromPromiseUnknown) and the combinators      *)
(*               attached to it, run by the host's microtask queue.        *)
(***************************************************************************)
EXTENDS Integers, Sequences, FiniteSets, TLC

VARIABLES
    \* ---- synchronous Result pipeline ----
    cur,        \* the Result the caller currently holds (the receiver)
    last,       \* record of the last method call: op, callback, receiver, completion
    nops,       \* number of method calls made so far
    run,        \* the current run of consecutive andThen calls (test instrumentation)
    maps,       \* the current run of consecutive map calls: its first receiver, its length
    again,      \* whether the last call repeated the call before it, and with what outcome
    elses,      \* the current run of consecutive orElse calls (test instrumentation)
    trip,       \* the current run of consecutive map / mapErr calls: its first receiver, the methods
    \* ---- ResultAsync chain ----
    ops,        \* stage descriptors: stage 1 is the source, stage k > 1 a combinator
    prom,       \* per stage: the state of the ResultAsync promise it returned
    outcomes,   \* per stage: the settled states that promise has been seen in
    resolves,   \* per stage: the arguments of the calls made to its resolve function
    invoked,    \* per stage: the arguments the user callback was invoked with
    ran,        \* per stage: how many times the stage's continuation ran
    inner,      \* per stage: the deferred computation returned by the callback
    ext,        \* the external promise (fromPromise's argument or a promise payload)
    waiting,    \* stages whose andThen registered handlers on the external promise
    escaped,    \* stages whose continuation let an error escape (unhandled rejection)
    mq          \* the microtask queue (FIFO)

syncVars  == <<cur, last, nops, run, elses, maps, again, trip>>
asyncVars == <<ops, prom, outcomes, resolves, invoked, ran, inner, ext, waiting, escaped, mq>>
vars      == <<cur, last, nops, run, elses, maps, again, trip, ops, prom, outcomes, resolves, invoked, ran, inner, ext, waiting, escaped, mq>>

(***************************************************************************)
(* Bounds of the model.                                                    *)
(***************************************************************************)
MaxOps    == 3      \* method calls in one synchronous pipeline
MaxStages == 3      \* stages of one ResultAsync chain, the source included
NumMod    == 2      \* numbers are 0 .. NumMod-1

(***************************************************************************)
(* JavaScript values.  Every value is a record with a kind field.          *)
(***************************************************************************)
Undefined    == [kind |-> "undefined"]
Null         == [kind |-> "null"]
False        == [kind |-> "boolean", b |-> FALSE]
True         == [kind |-> "boolean", b |-> TRUE]
Bool(b)      == IF b THEN True ELSE False
Num(n)       == [kind |-> "number", n |-> n]
Str(s)       == [kind |-> "string", s |-> s]
ErrorObj(m)  == [kind |-> "Error", message |-> m]
Detail(e)    == [kind |-> "object", error |-> e]
PromiseRef(i) == [kind |-> "promise", id |-> i]

IsPromise(v) == v.kind = "promise"

\* a completion of a piece of JavaScript: a normal return or a throw
Normal(v) == [thrown |-> FALSE, val |-> v]
Throw(e)  == [thrown |-> TRUE, val |-> e]

(***************************************************************************)
(* The Result class.  An instance is an object with an own property "ok"   *)
(* or an own property "err"; has is the set of own properties present.     *)
(***************************************************************************)
In(name, obj) == name \in obj.has

\* an object literal { ok: v } / { err: e } / {} / { ok: v, err: e }
Data(has, okv, errv) == [has |-> has, ok |-> okv, err |-> errv]

\* a constructor whose declared fields ok and err both become own properties
ResultCtorBothFields(data) ==
    IF In("ok", data)
    THEN Normal([kind |-> "Result", has |-> {"ok", "err"}, ok |-> data.ok, err |-> Undefined])
    ELSE IF In("err", data)
    THEN Normal([kind |-> "Result", has |-> {"ok", "err"}, ok |-> Undefined, err |-> data.err])
    ELSE Throw(ErrorObj("Bad constructor format!"))

ResultCtor(data) ==
    IF In("ok", data)
    THEN Normal([kind |-> "Result", has |-> {"ok"}, ok |-> data.ok, err |-> Undefined])
    ELSE IF In("err", data)
    THEN Normal([kind |-> "Result", has |-> {"err"}, ok |-> Undefined, err |-> data.err])
    ELSE Throw(ErrorObj("Bad constructor format!"))

Ok(data) == ResultCtor(Data({"ok"}, data, Undefined)).val

Err(e) == ResultCtor(Data({"err"}, Undefined, e)).val

DeeplyWrong == Throw(ErrorObj("Something is deeply wrong with the Result object"))

\* an isOk() that looks at the value of the ok field, not at its presence
isOkByValue(this) == Normal(this.ok # Undefined)

isOk(this) ==
    IF In("ok", this) THEN Normal(TRUE)
    ELSE IF In("err", this) THEN Normal(FALSE)
    ELSE DeeplyWrong

isErr(this) ==
    IF In("err", this) THEN Normal(TRUE)
    ELSE IF In("ok", this) THEN Normal(FALSE)
    ELSE DeeplyWrong

\* JSON.stringify, as far as the values of this model go; string
\* concatenation with undefined yields the text "undefined"
RECURSIVE Stringify(_)
Stringify(v) ==
    CASE v.kind = "number"    -> ToString(v.n)
      [] v.kind = "string"    -> "\"" \o v.s \o "\""
      [] v.kind = "null"      -> "null"
      [] v.kind = "boolean"   -> IF v.b THEN "true" ELSE "false"
      [] v.kind = "undefined" -> "undefined"
      [] v.kind = "object"    -> "{\"error\":" \o Stringify(v.error) \o "}"
      [] v.kind = "Result"    ->
            IF In("ok", v)
            THEN (IF v.ok.kind = "undefined" THEN "{}"
                  ELSE "{\"ok\":" \o Stringify(v.ok) \o "}")
            ELSE (IF v.err.kind = "undefined" THEN "{}"
                  ELSE "{\"err\":" \o Stringify(v.err) \o "}")
      [] OTHER                -> "{}"

\* an unwrapErr() that hands out the err field without looking at the variant
unwrapErrUnguarded(this) == Normal(this.err)

\* unwrapErr(): its failing branch calls unwrap(), which there (isErr()
\* returned false, so "ok" is present) returns this.ok
unwrapErr(this) ==
    IF isErr(this).thrown THEN isErr(this)
    ELSE IF isErr(this).val THEN Normal(this.err)
    ELSE Throw(ErrorObj("Called Result.unwrapErr() on an Ok value: " \o Stringify(this.ok)))

\* a message that does not show the payload
UnwrapMessageFixed(e) == "Attempted to unwrap an Err."

\* the message of the error unwrap() throws on an Err holding e
UnwrapMessage(e) == "Called Result.unwrap() on an Err value: " \o Stringify(e)

\* an unwrap() that hands out the ok field without looking at the variant
unwrapUnguarded(this) == Normal(this.ok)

\* unwrap(): its failing branch calls unwrapErr(), which there returns this.err
unwrap(this) ==
    IF isOk(this).thrown THEN isOk(this)
    ELSE IF isOk(this).val THEN Normal(this.ok)
    ELSE IF unwrapErr(this).thrown THEN unwrapErr(this)
    ELSE Throw(ErrorObj(UnwrapMessage(unwrapErr(this).val)))

(***************************************************************************)
(* User callbacks.  A callback is an input of the model: what it does when *)
(* invoked.  g is the value transformation the callbacks apply.            *)
(***************************************************************************)
g(x) == IF x.kind = "number" THEN Num((x.n + 1) % NumMod) ELSE Undefined

Thrown  == ErrorObj("Error was thrown!")
BadErr  == Str("bad")
Reason  == Str("reason")

\* value callbacks (map, mapErr): return g(x) / Detail(e), or throw
ValueCbs == {"value", "throw"}

\* Result callbacks (andThen, orElse): return Ok(g(x)), return Err(BadErr), or throw
ResultCbs == {"ok", "err", "throw"}

\* predicate callbacks (isOkAnd, isErrAnd): test the payload, or throw
PredCbs == {"test", "throw"}

\* the completion of a method call, with the number of times it invoked its
\* callback (calls) and its second, alternative callback (alt), and whether
\* the object it returned is the receiver ("this"), the argument ("arg") or
\* neither
Called(c) == [thrown |-> c.thrown, val |-> c.val, calls |-> 1, alt |-> 0, same |-> "none"]
CalledAlt(c) == [thrown |-> c.thrown, val |-> c.val, calls |-> 0, alt |-> 1, same |-> "none"]
NotCalled(c) == [thrown |-> c.thrown, val |-> c.val, calls |-> 0, alt |-> 0, same |-> "none"]
Returns(who, c) == [c EXCEPT !.same = who]

\* (x) => x > 0
CallOkPred(cb, x) ==
    IF cb = "throw" THEN Throw(Thrown) ELSE Normal(Bool(x.kind = "number" /\ x.n > 0))

\* (e) => e === "boom"
CallErrPred(cb, e) ==
    IF cb = "throw" THEN Throw(Thrown) ELSE Normal(Bool(e = Str("boom")))

CallValue(cb, x) ==
    IF cb = "throw" THEN Throw(Thrown) ELSE Normal(g(x))

CallErrValue(cb, e) ==
    IF cb = "throw" THEN Throw(Thrown) ELSE Normal(Detail(e))

CallResult(cb, x) ==
    CASE cb = "ok"  -> Normal(Ok(g(x)))
      [] cb = "err" -> Normal(Err(BadErr))
      [] OTHER      -> Throw(Thrown)

(***************************************************************************)
(* The synchronous combinators of Result.  Each yields the completion of   *)
(* the call and the number of times it invoked its callback.               *)
(***************************************************************************)
\* a map that stores op's result in the receiver and returns the receiver
mapInPlace(this, op) ==
    IF isOk(this).thrown THEN NotCalled(isOk(this))
    ELSE IF isOk(this).val
    THEN (IF CallValue(op, this.ok).thrown
          THEN Called(CallValue(op, this.ok))
          ELSE Returns("this", Called(Normal([this EXCEPT !.ok = CallValue(op, this.ok).val]))))
    ELSE Returns("this", NotCalled(Normal(this)))

\* a map with a try/catch around op, as ResultAsync.map has: a throw
\* becomes an Err
mapCatchesThrow(this, op) ==
    IF isOk(this).thrown THEN NotCalled(isOk(this))
    ELSE IF isOk(this).val
    THEN (IF CallValue(op, this.ok).thrown
          THEN Called(Normal(Err(CallValue(op, this.ok).val)))
          ELSE Called(Normal(Ok(CallValue(op, this.ok).val))))
    ELSE NotCalled(Normal(Err(this.err)))

map(this, op) ==
    IF isOk(this).thrown THEN NotCalled(isOk(this))
    ELSE IF isOk(this).val
    THEN (IF unwrap(this).thrown THEN NotCalled(unwrap(this))
          ELSE IF CallValue(op, unwrap(this).val).thrown
               THEN Called(CallValue(op, unwrap(this).val))
               ELSE Called(Normal(Ok(CallValue(op, unwrap(this).val).val))))
    ELSE IF isErr(this).val
    THEN (IF unwrapErr(this).thrown THEN NotCalled(unwrapErr(this))
          ELSE NotCalled(Normal(Err(unwrapErr(this).val))))
    ELSE NotCalled(DeeplyWrong)

\* a mapErr that applies op to the payload whatever the variant
mapErrAnyVariant(this, op) ==
    IF isOk(this).thrown THEN NotCalled(isOk(this))
    ELSE IF isOk(this).val
    THEN (IF CallErrValue(op, this.ok).thrown
          THEN Called(CallErrValue(op, this.ok))
          ELSE Called(Normal(Ok(CallErrValue(op, this.ok).val))))
    ELSE (IF CallErrValue(op, this.err).thrown
          THEN Called(CallErrValue(op, this.err))
          ELSE Called(Normal(Err(CallErrValue(op, this.err).val))))

mapErr(this, op) ==
    IF isOk(this).thrown THEN NotCalled(isOk(this))
    ELSE IF isOk(this).val
    THEN (IF unwrap(this).thrown THEN NotCalled(unwrap(this))
          ELSE NotCalled(Normal(Ok(unwrap(this).val))))
    ELSE IF isErr(this).val
    THEN (IF unwrapErr(this).thrown THEN NotCalled(unwrapErr(this))
          ELSE IF CallErrValue(op, unwrapErr(this).val).thrown
               THEN Called(CallErrValue(op, unwrapErr(this).val))
               ELSE Called(Normal(Err(CallErrValue(op, unwrapErr(this).val).val))))
    ELSE NotCalled(DeeplyWrong)

\* an and that looks at res first, so that of two Errs it returns res's
andChecksOtherFirst(this, res) ==
    IF isErr(res).thrown THEN NotCalled(isErr(res))
    ELSE IF isErr(res).val THEN NotCalled(Normal(Err(res.err)))
    ELSE IF isErr(this).val THEN NotCalled(Normal(Err(this.err)))
    ELSE Returns("arg", NotCalled(Normal(res)))

and(this, res) ==
    IF isErr(this).thrown THEN NotCalled(isErr(this))
    ELSE IF isErr(this).val THEN NotCalled(Normal(Err(this.err)))
    ELSE IF isOk(res).thrown THEN NotCalled(isOk(res))
    ELSE IF isOk(res).val THEN Returns("arg", NotCalled(Normal(res)))
    ELSE IF isErr(res).val THEN NotCalled(Normal(Err(res.err)))
    ELSE NotCalled(DeeplyWrong)

\* an andThen that hands the payload to op whatever the variant
andThenAlwaysCalls(this, op) ==
    IF isOk(this).thrown THEN NotCalled(isOk(this))
    ELSE IF isOk(this).val
    THEN Called(CallResult(op, this.ok))
    ELSE Called(CallResult(op, this.err))

andThen(this, op) ==
    IF isOk(this).thrown THEN NotCalled(isOk(this))
    ELSE IF isOk(this).val
    THEN (IF unwrap(this).thrown THEN NotCalled(unwrap(this))
          ELSE Called(CallResult(op, unwrap(this).val)))
    ELSE (IF unwrapErr(this).thrown THEN NotCalled(unwrapErr(this))
          ELSE NotCalled(Normal(Err(unwrapErr(this).val))))

or(this, res) ==
    IF isErr(this).thrown THEN NotCalled(isErr(this))
    ELSE IF isErr(this).val THEN Returns("arg", NotCalled(Normal(res)))
    ELSE IF isOk(this).val THEN Returns("this", NotCalled(Normal(this)))
    ELSE NotCalled(DeeplyWrong)

\* an orElse that hands the payload to op whatever the variant
orElseAlwaysCalls(this, op) ==
    IF isOk(this).thrown THEN NotCalled(isOk(this))
    ELSE IF isOk(this).val
    THEN Called(CallResult(op, this.ok))
    ELSE Called(CallResult(op, this.err))

orElse(this, op) ==
    IF isOk(this).thrown THEN NotCalled(isOk(this))
    ELSE IF isOk(this).val
    THEN (IF unwrap(this).thrown THEN NotCalled(unwrap(this))
          ELSE NotCalled(Normal(Ok(unwrap(this).val))))
    ELSE IF isErr(this).val
    THEN (IF unwrapErr(this).thrown THEN NotCalled(unwrapErr(this))
          ELSE Called(CallResult(op, unwrapErr(this).val)))
    ELSE NotCalled(DeeplyWrong)

(***************************************************************************)
(* The queries and the extraction methods of Result.                       *)
(***************************************************************************)
isOkAnd(this, f) ==
    IF isOk(this).thrown THEN NotCalled(isOk(this))
    ELSE IF isOk(this).val
    THEN (IF unwrap(this).thrown THEN NotCalled(unwrap(this))
          ELSE Called(CallOkPred(f, unwrap(this).val)))
    ELSE IF In("err", this) THEN NotCalled(Normal(False))
    ELSE NotCalled(DeeplyWrong)

isErrAnd(this, f) ==
    IF isOk(this).thrown THEN NotCalled(isOk(this))
    ELSE IF isOk(this).val THEN NotCalled(Normal(False))
    ELSE IF isErr(this).val
    THEN (IF unwrapErr(this).thrown THEN NotCalled(unwrapErr(this))
          ELSE Called(CallErrPred(f, unwrapErr(this).val)))
    ELSE NotCalled(DeeplyWrong)

mapOr(this, alternative, f) ==
    IF isOk(this).thrown THEN NotCalled(isOk(this))
    ELSE IF isOk(this).val
    THEN (IF unwrap(this).thrown THEN NotCalled(unwrap(this))
          ELSE Called(CallValue(f, unwrap(this).val)))
    ELSE IF isErr(this).val THEN NotCalled(Normal(alternative))
    ELSE NotCalled(DeeplyWrong)

\* a mapOrElse that evaluates both callbacks and then picks one result
mapOrElseEager(this, altF, f) ==
    LET onErr == CallErrValue(altF, this.err)
        onOk == CallValue(f, this.ok)
    IN [Called(IF onErr.thrown THEN onErr
               ELSE IF onOk.thrown THEN onOk
               ELSE IF isOk(this).val THEN onOk ELSE onErr) EXCEPT !.alt = 1]

mapOrElse(this, altF, f) ==
    IF isOk(this).thrown THEN NotCalled(isOk(this))
    ELSE IF isOk(this).val
    THEN (IF unwrap(this).thrown THEN NotCalled(unwrap(this))
          ELSE Called(CallValue(f, unwrap(this).val)))
    ELSE IF isErr(this).val
    THEN (IF unwrapErr(this).thrown THEN NotCalled(unwrapErr(this))
          ELSE CalledAlt(CallErrValue(altF, unwrapErr(this).val)))
    ELSE NotCalled(DeeplyWrong)

\* an expect that leaves the failure to unwrap() and its generic message
expectGenericMessage(this, msg) == NotCalled(unwrap(this))

expect(this, msg) ==
    IF isOk(this).thrown THEN NotCalled(isOk(this))
    ELSE IF isOk(this).val THEN NotCalled(unwrap(this))
    ELSE IF isErr(this).val
    THEN (IF unwrapErr(this).thrown THEN NotCalled(unwrapErr(this))
          ELSE NotCalled(Throw(ErrorObj(msg \o ": " \o Stringify(unwrapErr(this).val)))))
    ELSE NotCalled(DeeplyWrong)

expectErr(this, msg) ==
    IF isErr(this).thrown THEN NotCalled(isErr(this))
    ELSE IF isErr(this).val THEN NotCalled(unwrapErr(this))
    ELSE IF isOk(this).val
    THEN (IF unwrap(this).thrown THEN NotCalled(unwrap(this))
          ELSE NotCalled(Throw(ErrorObj(msg \o ": " \o Stringify(unwrap(this).val)))))
    ELSE NotCalled(DeeplyWrong)

unwrapOr(this, alternative) ==
    IF isOk(this).thrown THEN NotCalled(isOk(this))
    ELSE IF isOk(this).val THEN NotCalled(unwrap(this))
    ELSE IF isErr(this).val THEN NotCalled(Normal(alternative))
    ELSE NotCalled(DeeplyWrong)

\* an unwrapOrElse that computes the fallback before it looks at the variant
unwrapOrElseEager(this, op) ==
    IF CallErrValue(op, this.err).thrown THEN Called(CallErrValue(op, this.err))
    ELSE IF isOk(this).val THEN Called(Normal(this.ok))
    ELSE Called(CallErrValue(op, this.err))

unwrapOrElse(this, op) ==
    IF isOk(this).thrown THEN NotCalled(isOk(this))
    ELSE IF isOk(this).val THEN NotCalled(unwrap(this))
    ELSE IF isErr(this).val
    THEN (IF unwrapErr(this).thrown THEN NotCalled(unwrapErr(this))
          ELSE Called(CallErrValue(op, unwrapErr(this).val)))
    ELSE NotCalled(DeeplyWrong)

\* The comparison isDeepStrictEqual makes: values of different types are
\* unequal, primitives are compared by value, objects by their class and,
\* property by property, by their own properties.
RECURSIVE DeepEqual(_, _)
DeepEqual(a, b) ==
    IF a.kind # b.kind THEN FALSE
    ELSE CASE a.kind = "number"  -> a.n = b.n
           [] a.kind = "string"  -> a.s = b.s
           [] a.kind = "boolean" -> a.b = b.b
           [] a.kind = "object"  -> DeepEqual(a.error, b.error)
           [] a.kind = "Error"   -> a.message = b.message
           [] a.kind = "Result"  ->
                 /\ a.has = b.has
                 /\ In("ok", a) => DeepEqual(a.ok, b.ok)
                 /\ In("err", a) => DeepEqual(a.err, b.err)
           [] a.kind = "promise" -> a.id = b.id
           [] OTHER              -> TRUE

\* a comparison with ===: two objects are equal only when they are the same
\* object, and the argument of contains is an object of the caller's
StrictEqual(a, b) ==
    IF a.kind \in {"object", "Error", "Result", "promise"} THEN FALSE
    ELSE a.kind = b.kind /\ a = b

\* node:util isDeepStrictEqual
isDeepStrictEqual(a, b) == DeepEqual(a, b)

\* a contains that unwraps the receiver without looking at the variant
containsUnguarded(this, x) ==
    NotCalled(IF unwrap(this).thrown THEN unwrap(this)
              ELSE Normal(Bool(isDeepStrictEqual(unwrap(this).val, x))))

contains(this, x) ==
    IF isOk(this).thrown THEN NotCalled(isOk(this))
    ELSE IF isOk(this).val
    THEN (IF unwrap(this).thrown THEN NotCalled(unwrap(this))
          ELSE NotCalled(Normal(Bool(isDeepStrictEqual(unwrap(this).val, x)))))
    ELSE IF isErr(this).val THEN NotCalled(Normal(False))
    ELSE NotCalled(DeeplyWrong)

containsErr(this, x) ==
    IF isErr(this).thrown THEN NotCalled(isErr(this))
    ELSE IF isErr(this).val
    THEN (IF unwrapErr(this).thrown THEN NotCalled(unwrapErr(this))
          ELSE NotCalled(Normal(Bool(isDeepStrictEqual(unwrapErr(this).val, x)))))
    ELSE IF isOk(this).val THEN NotCalled(Normal(False))
    ELSE NotCalled(DeeplyWrong)


(***************************************************************************)
(* The synchronous pipeline: a caller holds a Result and calls one method  *)
(* on it per step, keeping the returned Result as the next receiver.       *)
(***************************************************************************)
Numbers == {Num(n) : n \in 0 .. NumMod - 1}

\* payloads handed to Ok(...) and Err(...): any value, another Result included
Payloads == Numbers \cup {Undefined, Null, False, Str("boom"), Detail(Num(1)),
                          Ok(Num(0)), Err(Str("boom"))}

\* values handed to contains and containsErr: the payloads, and records
\* that differ from the record payload in the value or in the type of a field
Probes == Payloads \cup {Detail(Num(0)), Detail(Str("1"))}

Constructed == {Ok(v) : v \in Payloads} \cup {Err(e) : e \in Payloads}

\* alternatives handed to mapOr and unwrapOr
Alternatives == {Num(0), Null}

\* context messages handed to expect and expectErr
Messages == {"Testing expect", "Testing expectErr"}

\* object literals handed to new Result(...): {}, { ok: 1 }, { err: "boom" }
\* and { ok: 1, err: "boom" }
Literals == {Data(h, IF "ok" \in h THEN Num(1) ELSE Undefined,
                     IF "err" \in h THEN Str("boom") ELSE Undefined) : h \in SUBSET {"ok", "err"}}

\* the two arguments of mapOr / mapOrElse
Args(a, b) == [kind |-> "arguments", first |-> a, second |-> b]

NoCall == [op |-> "new", arg |-> Undefined, recv |-> Undefined,
           out |-> NotCalled(Normal(Undefined)),
           recvAfter |-> Undefined, argAfter |-> Undefined]

\* the methods whose returned Result the caller goes on with
Chaining == {"construct", "map", "mapErr", "and", "andThen", "or", "orElse"}

AsyncIdle ==
    /\ ops = <<>>
    /\ prom = <<>>
    /\ outcomes = <<>>
    /\ resolves = <<>>
    /\ invoked = <<>>
    /\ ran = <<>>
    /\ inner = <<>>
    /\ ext = [st |-> "none", val |-> Undefined]
    /\ waiting = {}
    /\ escaped = {}
    /\ mq = <<>>

Init ==
    /\ cur \in Constructed
    /\ last = NoCall
    /\ nops = 0
    /\ run = <<>>
    /\ maps = [from |-> cur, n |-> 0]
    /\ again = "first"
    /\ elses = <<>>
    /\ trip = [from |-> cur, seq |-> <<>>]
    /\ AsyncIdle

\* The caller's bookkeeping after a call that completed with c.  A method
\* that returned its receiver (its argument) leaves that object with the
\* content it returned; every other object is as it was before the call.
Step(name, arg, c) ==
    LET next == IF ~c.thrown /\ name \in Chaining THEN c.val ELSE cur
    IN /\ nops < MaxOps
       /\ nops' = nops + 1
       /\ last' = [op |-> name, arg |-> arg, recv |-> cur, out |-> c,
                   recvAfter |-> IF ~c.thrown /\ c.same = "this" THEN c.val ELSE cur,
                   argAfter |-> IF ~c.thrown /\ c.same = "arg" THEN c.val ELSE arg]
       /\ cur' = next
       /\ run' = IF name = "andThen" /\ ~c.thrown
                 THEN Append(run, [cb |-> arg.s, recv |-> cur, out |-> c.val, calls |-> c.calls])
                 ELSE <<>>
       /\ elses' = IF name = "orElse" /\ ~c.thrown
                   THEN Append(elses, [cb |-> arg.s, recv |-> cur, out |-> c.val, calls |-> c.calls])
                   ELSE <<>>
       /\ maps' = IF name = "map" /\ ~c.thrown
                  THEN [maps EXCEPT !.n = @ + 1]
                  ELSE [from |-> next, n |-> 0]
       /\ again' = IF name = last.op /\ arg = last.arg /\ cur = last.recv
                   THEN (IF c = last.out THEN "same" ELSE "differs")
                   ELSE "first"
       /\ trip' = IF name \in {"map", "mapErr"} /\ ~c.thrown
                  THEN [trip EXCEPT !.seq = Append(@, name)]
                  ELSE [from |-> next, seq |-> <<>>]
       /\ UNCHANGED asyncVars

\* a boolean a query returned, as a JavaScript value
BoolOf(c) == NotCalled(IF c.thrown THEN c ELSE Normal(Bool(c.val)))

Construct == \E data \in Literals : Step("construct", data, NotCalled(ResultCtor(data)))

IsOk == Step("isOk", Undefined, BoolOf(isOk(cur)))

IsErr == Step("isErr", Undefined, BoolOf(isErr(cur)))

IsOkAnd == \E f \in PredCbs : Step("isOkAnd", Str(f), isOkAnd(cur, f))

IsErrAnd == \E f \in PredCbs : Step("isErrAnd", Str(f), isErrAnd(cur, f))

MapOr ==
    \E alternative \in Alternatives, f \in ValueCbs :
        Step("mapOr", Args(alternative, Str(f)), mapOr(cur, alternative, f))

MapOrElse ==
    \E altF \in ValueCbs, f \in ValueCbs :
        Step("mapOrElse", Args(Str(altF), Str(f)), mapOrElse(cur, altF, f))

Expect == \E msg \in Messages : Step("expect", Str(msg), expect(cur, msg))

Unwrap == Step("unwrap", Undefined, NotCalled(unwrap(cur)))

ExpectErr == \E msg \in Messages : Step("expectErr", Str(msg), expectErr(cur, msg))

UnwrapErr == Step("unwrapErr", Undefined, NotCalled(unwrapErr(cur)))

UnwrapOr == \E alternative \in Alternatives : Step("unwrapOr", alternative, unwrapOr(cur, alternative))

UnwrapOrElse == \E op \in ValueCbs : Step("unwrapOrElse", Str(op), unwrapOrElse(cur, op))

Contains == \E x \in Probes : Step("contains", x, contains(cur, x))

ContainsErr == \E x \in Probes : Step("containsErr", x, containsErr(cur, x))

Map == \E cb \in ValueCbs : Step("map", Str(cb), map(cur, cb))

MapErr == \E cb \in ValueCbs : Step("mapErr", Str(cb), mapErr(cur, cb))

And == \E res \in Constructed : Step("and", res, and(cur, res))

AndThen == \E cb \in ResultCbs : Step("andThen", Str(cb), andThen(cur, cb))

Or == \E res \in Constructed : Step("or", res, or(cur, res))

OrElse == \E cb \in ResultCbs : Step("orElse", Str(cb), orElse(cur, cb))

Next ==
    \/ Construct
    \/ IsOk \/ IsOkAnd \/ IsErr \/ IsErrAnd
    \/ Map \/ MapOr \/ MapOrElse \/ MapErr
    \/ Expect \/ Unwrap \/ ExpectErr \/ UnwrapErr
    \/ And \/ AndThen \/ Or \/ OrElse
    \/ UnwrapOr \/ UnwrapOrElse
    \/ Contains \/ ContainsErr

Spec == Init /\ [][Next]_vars



(***************************************************************************)
(* ResultAsync: a Promise subclass.  A chain is a source followed by       *)
(* combinators; stage k's combinator was called on the ResultAsync of      *)
(* stage k-1.  The host's Promise machinery is modelled as far as the      *)
(* combinators use it: the three promise states, resolving functions that  *)
(* act only once, resolve(promise) adopting that promise's outcome, and a  *)
(* FIFO microtask queue of reaction jobs.  Handlers that only pass a       *)
(* settlement through (a then without onRejected in front of a catch) are  *)
(* not given a microtask of their own.                                     *)
(***************************************************************************)
Pending == [st |-> "pending", val |-> Undefined, locked |-> FALSE, follows |-> FALSE]

Fulfilled(v) == [st |-> "fulfilled", val |-> v, locked |-> TRUE, follows |-> FALSE]

NoInner == [st |-> "none", fate |-> "none", val |-> Undefined]

\* a resolve function that acts on every call: the last call wins
ResolveLastCallWins(p, x) ==
    IF IsPromise(x) THEN [p EXCEPT !.locked = TRUE, !.follows = TRUE]
    ELSE Fulfilled(x)

\* the resolve function an executor receives: only its first call acts; a
\* promise argument is followed, any other value fulfils
Resolve(p, x) ==
    IF p.locked THEN p
    ELSE IF IsPromise(x) THEN [p EXCEPT !.locked = TRUE, !.follows = TRUE]
    ELSE Fulfilled(x)

\* what an observer of a promise has seen of it so far: a settled state is
\* recorded each time the promise's state or value changes
Observed(seen, old, new) ==
    IF new.st # "pending" /\ (old.st # new.st \/ old.val # new.val)
    THEN Append(seen, [st |-> new.st, val |-> new.val])
    ELSE seen

Job(type, k, v) == [type |-> type, k |-> k, val |-> v]

\* the reaction registered by stage k+1 on stage k's promise is queued when
\* that promise leaves pending
Notify(k, newp, q) ==
    IF prom[k].st = "pending" /\ newp.st # "pending" /\ k < Len(ops)
    THEN Append(q, Job("then", k + 1, Undefined))
    ELSE q

\* callbacks handed to ResultAsync.map / mapErr: return a value, return a
\* deferred computation that fulfils or one that rejects, or throw
AsyncValueCbs == {"value", "promise", "reject", "throw"}

\* callbacks handed to ResultAsync.andThen: return a Result, return a
\* deferred computation that fulfils with a Result or rejects, or throw
AsyncResultCbs == {"ok", "err", "promiseOk", "promiseErr", "reject", "throw"}

\* the completion of invoking a map callback of stage k on x; a deferred
\* computation it returns is the inner promise of stage k
CallAsyncValue(cb, x, k) ==
    CASE cb = "value"                -> Normal(g(x))
      [] cb \in {"promise", "reject"} -> Normal(PromiseRef(k))
      [] OTHER                       -> Throw(Thrown)

CallAsyncErrValue(cb, e, k) ==
    CASE cb = "value"                -> Normal(Detail(e))
      [] cb \in {"promise", "reject"} -> Normal(PromiseRef(k))
      [] OTHER                       -> Throw(Thrown)

CallAsyncResult(cb, x, k) ==
    CASE cb = "ok"                                   -> Normal(Ok(g(x)))
      [] cb = "err"                                  -> Normal(Err(BadErr))
      [] cb \in {"promiseOk", "promiseErr", "reject"} -> Normal(PromiseRef(k))
      [] OTHER                                       -> Throw(Thrown)

\* the deferred computation a callback returned: pending, with the outcome
\* it will settle to
NewInner(cb, u, e) ==
    CASE cb \in {"promise", "promiseOk"} -> [st |-> "pending", fate |-> "fulfilled", val |-> u]
      [] cb = "promiseErr"               -> [st |-> "pending", fate |-> "fulfilled", val |-> e]
      [] OTHER                           -> [st |-> "pending", fate |-> "rejected", val |-> Reason]

SyncIdle ==
    /\ cur = Ok(Undefined)
    /\ last = NoCall
    /\ nops = 0
    /\ run = <<>>
    /\ maps = [from |-> cur, n |-> 0]
    /\ again = "first"
    /\ elses = <<>>
    /\ trip = [from |-> cur, seq |-> <<>>]

ExtRef == PromiseRef(0)

\* OkAsync(data): the executor calls resolve(Ok(data)) at once
OkAsync(data) == Resolve(Pending, Ok(data))

\* ErrAsync(data): the executor calls resolve(Err(data)) at once
ErrAsync(data) == Resolve(Pending, Err(data))

\* fromPromise(promise): the executor registers handlers on promise
fromPromise == Pending

\* fromPromiseUnknown(promise): the same executor, the payload cast to T
fromPromiseUnknown == Pending

\* the resolve calls the executor of a source makes before it returns
SourceResolveCalls(op, data) ==
    CASE op = "OkAsync"  -> <<Ok(data)>>
      [] op = "ErrAsync" -> <<Err(data)>>
      [] OTHER           -> <<>>

Stage(op, cb, data) == [op |-> op, cb |-> cb, data |-> data]

InitSource(op, data, p, e) ==
    /\ ops = <<Stage(op, "none", data)>>
    /\ prom = <<p>>
    /\ outcomes = <<Observed(<<>>, Pending, p)>>
    /\ resolves = <<SourceResolveCalls(op, data)>>
    /\ invoked = << <<>> >>
    /\ ran = <<0>>
    /\ inner = <<NoInner>>
    /\ ext = e
    /\ waiting = {}
    /\ escaped = {}
    /\ mq = <<>>

NoExt  == [st |-> "none", val |-> Undefined]
ExtPending == [st |-> "pending", val |-> Undefined]

InitAsync ==
    /\ SyncIdle
    /\ \/ \E v \in Numbers : InitSource("OkAsync", v, OkAsync(v), NoExt)
       \/ InitSource("OkAsync", ExtRef, OkAsync(ExtRef), ExtPending)
       \/ \E e \in {Str("boom"), Undefined} : InitSource("ErrAsync", e, ErrAsync(e), NoExt)
       \/ InitSource("fromPromise", ExtRef, fromPromise, ExtPending)
       \/ InitSource("fromPromiseUnknown", ExtRef, fromPromiseUnknown, ExtPending)

\* a combinator is called on the last ResultAsync of the chain: its
\* executor runs this.then(...), which queues the reaction at once when
\* this is already settled
Attach(op, cb) ==
    /\ Len(ops) < MaxStages
    /\ ops' = Append(ops, Stage(op, cb, Undefined))
    /\ prom' = Append(prom, Pending)
    /\ outcomes' = Append(outcomes, <<>>)
    /\ resolves' = Append(resolves, <<>>)
    /\ invoked' = Append(invoked, <<>>)
    /\ ran' = Append(ran, 0)
    /\ inner' = Append(inner, NoInner)
    /\ mq' = IF prom[Len(ops)].st # "pending"
             THEN Append(mq, Job("then", Len(ops) + 1, Undefined))
             ELSE mq
    /\ UNCHANGED <<ext, waiting, escaped>>
    /\ UNCHANGED syncVars

CallMap == \E cb \in AsyncValueCbs : Attach("map", cb)

CallMapErr == \E cb \in AsyncValueCbs : Attach("mapErr", cb)

CallAndThen == \E cb \in AsyncResultCbs : Attach("andThen", cb)

HeadIs(type, op) ==
    /\ mq # <<>>
    /\ Head(mq).type = type
    /\ ops[Head(mq).k].op = op


\* stage k's resolve function is called with each of xs, in order
Resolved(k, xs) == resolves' = [resolves EXCEPT ![k] = @ \o xs]

\* what every reaction job shares: it leaves the queue, stage k's promise
\* becomes p and a reaction registered on it is queued behind the jobs q
\* this job queued itself
Settle(k, p, q) ==
    /\ prom' = [prom EXCEPT ![k] = p]
    /\ outcomes' = [outcomes EXCEPT ![k] = Observed(@, prom[k], p)]
    /\ mq' = Notify(k, p, Tail(mq) \o q)

\* ---- ResultAsync.map ----
\* a continuation without the short-circuit branch: an Err settlement goes
\* straight into the try block
MapResolvesNoShortCircuit(p, resultData, func, k) ==
    LET arg == unwrap(resultData)
        response == CallAsyncValue(func, arg.val, k)
    IN IF arg.thrown THEN Resolve(p, Err(arg.val))
       ELSE IF response.thrown THEN Resolve(p, Err(response.val))
       ELSE IF IsPromise(response.val) THEN p
       ELSE Resolve(p, Ok(response.val))

\* The resolve calls of the continuation map registers with this.then,
\* applied to the promise p that map returned.  After the short-circuit
\* branch there is no return: control falls into the try block, where
\* resultData.unwrap() is evaluated before func is called.
MapResolves(p, resultData, func, k) ==
    LET p1 == IF ~isOk(resultData).val
              THEN Resolve(p, Err(unwrapErr(resultData).val))
              ELSE p
        arg == unwrap(resultData)
        response == CallAsyncValue(func, arg.val, k)
    IN IF arg.thrown THEN Resolve(p1, Err(arg.val))
       ELSE IF response.thrown THEN Resolve(p1, Err(response.val))
       ELSE IF IsPromise(response.val) THEN p1
       ELSE Resolve(p1, Ok(response.val))

\* the arguments of those resolve calls, in the order the continuation
\* makes them: the short-circuit branch first, then the try block or its
\* catch handler
MapResolveCalls(resultData, func, k) ==
    LET arg == unwrap(resultData)
        response == CallAsyncValue(func, arg.val, k)
    IN (IF ~isOk(resultData).val THEN <<Err(unwrapErr(resultData).val)>> ELSE <<>>)
       \o (IF arg.thrown THEN <<Err(arg.val)>>
           ELSE IF response.thrown THEN <<Err(response.val)>>
           ELSE IF IsPromise(response.val) THEN <<>>
           ELSE <<Ok(response.val)>>)

\* The continuation itself: func is invoked when unwrap() returned, and a
\* promise it returns gets the then and catch handlers.  When this rejected
\* the continuation does not run and the promise this.then returned rejects
\* with no handler.
MapContinuation ==
    /\ HeadIs("then", "map")
    /\ LET k == Head(mq).k
           up == prom[k - 1]
           resultData == up.val
           func == ops[k].cb
           arg == unwrap(resultData)
           response == CallAsyncValue(func, arg.val, k)
       IN IF up.st = "rejected"
          THEN /\ escaped' = escaped \cup {k}
               /\ mq' = Tail(mq)
               /\ UNCHANGED <<prom, outcomes, resolves, invoked, ran, inner>>
          ELSE /\ Settle(k, MapResolves(prom[k], resultData, func, k), <<>>)
               /\ Resolved(k, MapResolveCalls(resultData, func, k))
               /\ ran' = [ran EXCEPT ![k] = @ + 1]
               /\ invoked' = IF arg.thrown THEN invoked
                             ELSE [invoked EXCEPT ![k] = Append(@, arg.val)]
               /\ inner' = IF ~arg.thrown /\ ~response.thrown /\ IsPromise(response.val)
                           THEN [inner EXCEPT ![k] = NewInner(func, g(arg.val), Undefined)]
                           ELSE inner
               /\ UNCHANGED escaped
    /\ UNCHANGED <<ops, ext, waiting>>
    /\ UNCHANGED syncVars

\* a then handler that wraps the promise instead of the value it fulfilled with
MapInnerThenWrapsPromise ==
    /\ HeadIs("innerThen", "map")
    /\ Settle(Head(mq).k, Resolve(prom[Head(mq).k], Ok(PromiseRef(Head(mq).k))), <<>>)
    /\ Resolved(Head(mq).k, <<Ok(PromiseRef(Head(mq).k))>>)
    /\ UNCHANGED <<ops, invoked, ran, inner, ext, waiting, escaped>>
    /\ UNCHANGED syncVars

\* response.then((data) => resolve(Ok(data)))
MapInnerThen ==
    /\ HeadIs("innerThen", "map")
    /\ Settle(Head(mq).k, Resolve(prom[Head(mq).k], Ok(Head(mq).val)), <<>>)
    /\ Resolved(Head(mq).k, <<Ok(Head(mq).val)>>)
    /\ UNCHANGED <<ops, invoked, ran, inner, ext, waiting, escaped>>
    /\ UNCHANGED syncVars

\* a map without the catch on the callback's promise: the rejection has no
\* handler and resolve is never called
MapInnerCatchMissing ==
    /\ HeadIs("innerCatch", "map")
    /\ escaped' = escaped \cup {Head(mq).k}
    /\ mq' = Tail(mq)
    /\ UNCHANGED <<ops, prom, outcomes, resolves, invoked, ran, inner, ext, waiting>>
    /\ UNCHANGED syncVars

\* .catch((err) => resolve(Err(err)))
MapInnerCatch ==
    /\ HeadIs("innerCatch", "map")
    /\ Settle(Head(mq).k, Resolve(prom[Head(mq).k], Err(Head(mq).val)), <<>>)
    /\ Resolved(Head(mq).k, <<Err(Head(mq).val)>>)
    /\ UNCHANGED <<ops, invoked, ran, inner, ext, waiting, escaped>>
    /\ UNCHANGED syncVars

\* ---- ResultAsync.mapErr ----
\* a continuation that resolves with whatever op returned, without
\* waiting for a deferred computation
MapErrResolvesWithoutWaiting(p, result, op, k) ==
    LET p1 == IF ~isErr(result).val
              THEN Resolve(p, Ok(unwrap(result).val))
              ELSE p
        arg == unwrapErr(result)
        error == CallAsyncErrValue(op, arg.val, k)
    IN IF arg.thrown THEN Resolve(p1, Err(arg.val))
       ELSE IF error.thrown THEN Resolve(p1, Err(error.val))
       ELSE Resolve(p1, Err(error.val))

\* The resolve calls of the continuation mapErr registers with this.then,
\* applied to the promise p that mapErr returned.  Same shape as map, on
\* the Err side.
MapErrResolves(p, result, op, k) ==
    LET p1 == IF ~isErr(result).val
              THEN Resolve(p, Ok(unwrap(result).val))
              ELSE p
        arg == unwrapErr(result)
        error == CallAsyncErrValue(op, arg.val, k)
    IN IF arg.thrown THEN Resolve(p1, Err(arg.val))
       ELSE IF error.thrown THEN Resolve(p1, Err(error.val))
       ELSE IF IsPromise(error.val) THEN p1
       ELSE Resolve(p1, Err(error.val))

\* the arguments of those resolve calls, in order
MapErrResolveCalls(result, op, k) ==
    LET arg == unwrapErr(result)
        error == CallAsyncErrValue(op, arg.val, k)
    IN (IF ~isErr(result).val THEN <<Ok(unwrap(result).val)>> ELSE <<>>)
       \o (IF arg.thrown THEN <<Err(arg.val)>>
           ELSE IF error.thrown THEN <<Err(error.val)>>
           ELSE IF IsPromise(error.val) THEN <<>>
           ELSE <<Err(error.val)>>)

\* The continuation itself, with a catch on the promise that this.then
\* returned.
MapErrContinuation ==
    /\ HeadIs("then", "mapErr")
    /\ LET k == Head(mq).k
           up == prom[k - 1]
           result == up.val
           op == ops[k].cb
           arg == unwrapErr(result)
           error == CallAsyncErrValue(op, arg.val, k)
       IN IF up.st = "rejected"
          THEN /\ mq' = Append(Tail(mq), Job("outerCatch", k, up.val))
               /\ UNCHANGED <<prom, outcomes, resolves, invoked, ran, inner>>
          ELSE /\ Settle(k, MapErrResolves(prom[k], result, op, k), <<>>)
               /\ Resolved(k, MapErrResolveCalls(result, op, k))
               /\ ran' = [ran EXCEPT ![k] = @ + 1]
               /\ invoked' = IF arg.thrown THEN invoked
                             ELSE [invoked EXCEPT ![k] = Append(@, arg.val)]
               /\ inner' = IF ~arg.thrown /\ ~error.thrown /\ IsPromise(error.val)
                           THEN [inner EXCEPT ![k] = NewInner(op, Detail(arg.val), Undefined)]
                           ELSE inner
    /\ UNCHANGED <<ops, ext, waiting, escaped>>
    /\ UNCHANGED syncVars

\* a then handler copied from map: it wraps the value in Ok
MapErrInnerThenOk ==
    /\ HeadIs("innerThen", "mapErr")
    /\ Settle(Head(mq).k, Resolve(prom[Head(mq).k], Ok(Head(mq).val)), <<>>)
    /\ Resolved(Head(mq).k, <<Ok(Head(mq).val)>>)
    /\ UNCHANGED <<ops, invoked, ran, inner, ext, waiting, escaped>>
    /\ UNCHANGED syncVars

\* error.then((data) => resolve(Err(data)))
MapErrInnerThen ==
    /\ HeadIs("innerThen", "mapErr")
    /\ Settle(Head(mq).k, Resolve(prom[Head(mq).k], Err(Head(mq).val)), <<>>)
    /\ Resolved(Head(mq).k, <<Err(Head(mq).val)>>)
    /\ UNCHANGED <<ops, invoked, ran, inner, ext, waiting, escaped>>
    /\ UNCHANGED syncVars

\* a mapErr without the catch on the callback's promise: the rejection has
\* no handler and resolve is never called
MapErrInnerCatchMissing ==
    /\ HeadIs("innerCatch", "mapErr")
    /\ escaped' = escaped \cup {Head(mq).k}
    /\ mq' = Tail(mq)
    /\ UNCHANGED <<ops, prom, outcomes, resolves, invoked, ran, inner, ext, waiting>>
    /\ UNCHANGED syncVars

\* .catch((err) => resolve(Err(err))) on the callback's promise
MapErrInnerCatch ==
    /\ HeadIs("innerCatch", "mapErr")
    /\ Settle(Head(mq).k, Resolve(prom[Head(mq).k], Err(Head(mq).val)), <<>>)
    /\ Resolved(Head(mq).k, <<Err(Head(mq).val)>>)
    /\ UNCHANGED <<ops, invoked, ran, inner, ext, waiting, escaped>>
    /\ UNCHANGED syncVars

\* a mapErr without the catch behind this.then: the rejection of this has
\* no handler and resolve is never called
MapErrOuterCatchMissing ==
    /\ HeadIs("outerCatch", "mapErr")
    /\ escaped' = escaped \cup {Head(mq).k}
    /\ mq' = Tail(mq)
    /\ UNCHANGED <<ops, prom, outcomes, resolves, invoked, ran, inner, ext, waiting>>
    /\ UNCHANGED syncVars

\* .catch((err) => resolve(Err(err))) on the promise this.then returned
MapErrOuterCatch ==
    /\ HeadIs("outerCatch", "mapErr")
    /\ Settle(Head(mq).k, Resolve(prom[Head(mq).k], Err(Head(mq).val)), <<>>)
    /\ Resolved(Head(mq).k, <<Err(Head(mq).val)>>)
    /\ UNCHANGED <<ops, invoked, ran, inner, ext, waiting, escaped>>
    /\ UNCHANGED syncVars

\* ---- ResultAsync.andThen ----
\* No try block: an error op throws leaves the continuation, so resolve is
\* never called and the promise this.then returned rejects with no handler.
\* A promise payload is awaited first and op runs in its then handler.
AndThenContinuation ==
    /\ HeadIs("then", "andThen")
    /\ LET k == Head(mq).k
           up == prom[k - 1]
           result == up.val
           op == ops[k].cb
           data == unwrap(result).val
           c == CallAsyncResult(op, data, k)
       IN IF up.st = "rejected"
          THEN /\ escaped' = escaped \cup {k}
               /\ mq' = Tail(mq)
               /\ UNCHANGED <<prom, outcomes, resolves, invoked, ran, inner, waiting>>
          ELSE /\ ran' = [ran EXCEPT ![k] = @ + 1]
               /\ IF isOk(result).val
                  THEN IF IsPromise(data)
                       THEN /\ waiting' = IF ext.st = "pending" THEN waiting \cup {k} ELSE waiting
                            /\ mq' = IF ext.st = "pending" THEN Tail(mq)
                                     ELSE Append(Tail(mq),
                                                 Job(IF ext.st = "fulfilled" THEN "payThen" ELSE "payCatch",
                                                     k, ext.val))
                            /\ UNCHANGED <<prom, outcomes, resolves, invoked, inner, escaped>>
                       ELSE /\ invoked' = [invoked EXCEPT ![k] = Append(@, data)]
                            /\ IF c.thrown
                               THEN /\ escaped' = escaped \cup {k}
                                    /\ mq' = Tail(mq)
                                    /\ UNCHANGED <<prom, outcomes, resolves, inner>>
                               ELSE /\ Settle(k, Resolve(prom[k], c.val), <<>>)
                                    /\ Resolved(k, <<c.val>>)
                                    /\ inner' = IF IsPromise(c.val)
                                                THEN [inner EXCEPT ![k] = NewInner(op, Ok(g(data)), Err(BadErr))]
                                                ELSE inner
                                    /\ UNCHANGED escaped
                            /\ UNCHANGED waiting
                  ELSE /\ Settle(k, Resolve(prom[k], Err(unwrapErr(result).val)), <<>>)
                       /\ Resolved(k, <<Err(unwrapErr(result).val)>>)
                       /\ UNCHANGED <<invoked, inner, waiting, escaped>>
    /\ UNCHANGED <<ops, ext>>
    /\ UNCHANGED syncVars

\* a payload handler that hands op the promise, not what it fulfilled with
AndThenPayloadThenPassesPromise ==
    /\ HeadIs("payThen", "andThen")
    /\ LET k == Head(mq).k
           data == ExtRef
           op == ops[k].cb
           c == CallAsyncResult(op, data, k)
       IN /\ invoked' = [invoked EXCEPT ![k] = Append(@, data)]
          /\ IF c.thrown
             THEN /\ mq' = Append(Tail(mq), Job("payCatch", k, c.val))
                  /\ UNCHANGED <<prom, outcomes, resolves, inner>>
             ELSE /\ Settle(k, Resolve(prom[k], c.val), <<>>)
                  /\ Resolved(k, <<c.val>>)
                  /\ inner' = IF IsPromise(c.val)
                              THEN [inner EXCEPT ![k] = NewInner(op, Ok(g(data)), Err(BadErr))]
                              ELSE inner
    /\ UNCHANGED <<ops, ran, ext, waiting, escaped>>
    /\ UNCHANGED syncVars

\* data.then((data) => resolve(op(data))): an error op throws here rejects
\* the promise then returned, which the catch behind it handles
AndThenPayloadThen ==
    /\ HeadIs("payThen", "andThen")
    /\ LET k == Head(mq).k
           data == Head(mq).val
           op == ops[k].cb
           c == CallAsyncResult(op, data, k)
       IN /\ invoked' = [invoked EXCEPT ![k] = Append(@, data)]
          /\ IF c.thrown
             THEN /\ mq' = Append(Tail(mq), Job("payCatch", k, c.val))
                  /\ UNCHANGED <<prom, outcomes, resolves, inner>>
             ELSE /\ Settle(k, Resolve(prom[k], c.val), <<>>)
                  /\ Resolved(k, <<c.val>>)
                  /\ inner' = IF IsPromise(c.val)
                              THEN [inner EXCEPT ![k] = NewInner(op, Ok(g(data)), Err(BadErr))]
                              ELSE inner
    /\ UNCHANGED <<ops, ran, ext, waiting, escaped>>
    /\ UNCHANGED syncVars

\* .catch((err) => resolve(Err(err))) behind the payload's then
AndThenPayloadCatch ==
    /\ HeadIs("payCatch", "andThen")
    /\ Settle(Head(mq).k, Resolve(prom[Head(mq).k], Err(Head(mq).val)), <<>>)
    /\ Resolved(Head(mq).k, <<Err(Head(mq).val)>>)
    /\ UNCHANGED <<ops, invoked, ran, inner, ext, waiting, escaped>>
    /\ UNCHANGED syncVars

\* resolve(op(data)) was handed a promise: the ResultAsync takes over that
\* promise's outcome, a rejection included
AndThenAdopt ==
    /\ HeadIs("adopt", "andThen")
    /\ LET k == Head(mq).k
           p == IF prom[k].follows /\ prom[k].st = "pending"
                THEN [st |-> inner[k].st, val |-> inner[k].val, locked |-> TRUE, follows |-> TRUE]
                ELSE prom[k]
       IN Settle(k, p, <<>>)
    /\ UNCHANGED <<ops, resolves, invoked, ran, inner, ext, waiting, escaped>>
    /\ UNCHANGED syncVars

\* ---- Result.fromPromise ----
\* promise.then((promiseData) => resolve(Ok(promiseData)))
FromPromiseThen ==
    /\ HeadIs("fromThen", "fromPromise")
    /\ Settle(1, Resolve(prom[1], Ok(Head(mq).val)), <<>>)
    /\ Resolved(1, <<Ok(Head(mq).val)>>)
    /\ UNCHANGED <<ops, invoked, ran, inner, ext, waiting, escaped>>
    /\ UNCHANGED syncVars

\* a fromPromise without the catch: the rejection has no handler and
\* resolve is never called
FromPromiseCatchMissing ==
    /\ HeadIs("fromCatch", "fromPromise")
    /\ escaped' = escaped \cup {1}
    /\ mq' = Tail(mq)
    /\ UNCHANGED <<ops, prom, outcomes, resolves, invoked, ran, inner, ext, waiting>>
    /\ UNCHANGED syncVars

\* .catch((errorData) => resolve(Err(errorData)))
FromPromiseCatch ==
    /\ HeadIs("fromCatch", "fromPromise")
    /\ Settle(1, Resolve(prom[1], Err(Head(mq).val)), <<>>)
    /\ Resolved(1, <<Err(Head(mq).val)>>)
    /\ UNCHANGED <<ops, invoked, ran, inner, ext, waiting, escaped>>
    /\ UNCHANGED syncVars

\* ---- Result.fromPromiseUnknown ----
\* promise.then((promiseData) => resolve(Ok(promiseData as T)))
FromPromiseUnknownThen ==
    /\ HeadIs("fromThen", "fromPromiseUnknown")
    /\ Settle(1, Resolve(prom[1], Ok(Head(mq).val)), <<>>)
    /\ Resolved(1, <<Ok(Head(mq).val)>>)
    /\ UNCHANGED <<ops, invoked, ran, inner, ext, waiting, escaped>>
    /\ UNCHANGED syncVars

\* .catch((errorData) => resolve(Err(errorData)))
FromPromiseUnknownCatch ==
    /\ HeadIs("fromCatch", "fromPromiseUnknown")
    /\ Settle(1, Resolve(prom[1], Err(Head(mq).val)), <<>>)
    /\ Resolved(1, <<Err(Head(mq).val)>>)
    /\ UNCHANGED <<ops, invoked, ran, inner, ext, waiting, escaped>>
    /\ UNCHANGED syncVars

\* ---- the environment ----
\* the external promise settles: the handlers registered on it are queued
ExtJobs(st, v) ==
    (IF ops[1].op \in {"fromPromise", "fromPromiseUnknown"}
     THEN <<Job(IF st = "fulfilled" THEN "fromThen" ELSE "fromCatch", 1, v)>>
     ELSE <<>>)
    \o
    (IF waiting # {}
     THEN <<Job(IF st = "fulfilled" THEN "payThen" ELSE "payCatch", CHOOSE k \in waiting : TRUE, v)>>
     ELSE <<>>)

SettleExt ==
    /\ ext.st = "pending"
    /\ \E o \in {[st |-> "fulfilled", val |-> v] : v \in Numbers}
                \cup {[st |-> "rejected", val |-> Reason]} :
          /\ ext' = o
          /\ mq' = mq \o ExtJobs(o.st, o.val)
    /\ waiting' = {}
    /\ UNCHANGED <<ops, prom, outcomes, resolves, invoked, ran, inner, escaped>>
    /\ UNCHANGED syncVars

\* the deferred computation a callback of stage k returned settles
SettleInner ==
    /\ \E k \in DOMAIN inner :
          /\ inner[k].st = "pending"
          /\ inner' = [inner EXCEPT ![k].st = inner[k].fate]
          /\ mq' = Append(mq,
                     IF ops[k].op = "andThen" THEN Job("adopt", k, Undefined)
                     ELSE Job(IF inner[k].fate = "fulfilled" THEN "innerThen" ELSE "innerCatch",
                              k, inner[k].val))
    /\ UNCHANGED <<ops, prom, outcomes, resolves, invoked, ran, ext, waiting, escaped>>
    /\ UNCHANGED syncVars

NextAsync ==
    \/ CallMap \/ CallMapErr \/ CallAndThen
    \/ MapContinuation \/ MapInnerThen \/ MapInnerCatch
    \/ MapErrContinuation \/ MapErrInnerThen \/ MapErrInnerCatch \/ MapErrOuterCatch
    \/ AndThenContinuation \/ AndThenPayloadThen \/ AndThenPayloadCatch \/ AndThenAdopt
    \/ FromPromiseThen \/ FromPromiseCatch
    \/ FromPromiseUnknownThen \/ FromPromiseUnknownCatch
    \/ SettleExt \/ SettleInner

SpecAsync == InitAsync /\ [][NextAsync]_vars

\* the reaction job at the head of the microtask queue runs
RunMicrotask ==
    \/ MapContinuation \/ MapInnerThen \/ MapInnerCatch
    \/ MapErrContinuation \/ MapErrInnerThen \/ MapErrInnerCatch \/ MapErrOuterCatch
    \/ AndThenContinuation \/ AndThenPayloadThen \/ AndThenPayloadCatch \/ AndThenAdopt
    \/ FromPromiseThen \/ FromPromiseCatch
    \/ FromPromiseUnknownThen \/ FromPromiseUnknownCatch

\* The chain under a host that drains its microtask queue, with a source
\* promise and deferred computations that do settle.  Calling one more
\* combinator is left to the user: a chain may stop at any length.
SpecAsyncFair ==
    /\ InitAsync
    /\ [][NextAsync]_vars
    /\ WF_vars(RunMicrotask)
    /\ WF_vars(SettleExt)
    /\ WF_vars(SettleInner)


(***************************************************************************)
(* Properties of the ResultAsync chain.                                    *)
(***************************************************************************)
Stages == DOMAIN ops

Combinators(op) == {k \in Stages : k > 1 /\ ops[k].op = op}

SettledOk(k)  == prom[k].st = "fulfilled" /\ In("ok", prom[k].val)

SettledErr(k) == prom[k].st = "fulfilled" /\ In("err", prom[k].val)

\* nothing of stage k is still due: no job of it is queued, the deferred
\* computation its callback returned has settled, it waits on no payload
Idle(k) ==
    /\ \A i \in DOMAIN mq : mq[i].k # k
    /\ inner[k].st # "pending"
    /\ k \notin waiting

\* the continuation of stage k has run on an Ok / on an Err settlement
RanOnOk(k)  == ran[k] > 0 /\ SettledOk(k - 1)

RanOnErr(k) == ran[k] > 0 /\ SettledErr(k - 1)

\* C3 - a callback of andThen that throws on an Ok settlement is captured:
\* once nothing of the stage is due, its ResultAsync is settled to
\* Err(thrown error), and no error has escaped the chain.
AndThenCapturesThrow ==
    \A k \in Combinators("andThen") :
        (ops[k].cb = "throw" /\ invoked[k] # <<>>) =>
            /\ k \notin escaped
            /\ prom[k].st # "rejected"
            /\ Idle(k) => prom[k] = Fulfilled(Err(Thrown))

\* C4 - a deferred computation returned by the callback of andThen that
\* rejects with r settles the ResultAsync to Err(r); the ResultAsync never
\* rejects.
AndThenCapturesRejection ==
    \A k \in Combinators("andThen") :
        (ops[k].cb = "reject" /\ invoked[k] # <<>>) =>
            /\ prom[k].st # "rejected"
            /\ (inner[k].st = "rejected" /\ Idle(k)) => prom[k] = Fulfilled(Err(Reason))

\* C5 - map on an Ok settlement: a callback that throws t settles the
\* ResultAsync to Err(t); a callback whose deferred computation rejects with
\* r settles it to Err(r); it neither rejects nor stays pending once nothing
\* of the stage is due, and no error escapes.
MapCapturesFailures ==
    \A k \in Combinators("map") :
        RanOnOk(k) =>
            /\ k \notin escaped
            /\ prom[k].st # "rejected"
            /\ ops[k].cb = "throw" => prom[k] = Fulfilled(Err(Thrown))
            /\ ops[k].cb = "reject" =>
                  /\ inner[k].fate = "rejected"
                  /\ prom[k].st = "fulfilled" => prom[k].val = Err(Reason)
                  /\ Idle(k) => prom[k] = Fulfilled(Err(Reason))

\* a map callback invoked on Ok returned a promise, which has rejected and
\* whose catch handler has run
MapCapturesFailuresWitness ==
    \E k \in Combinators("map") :
        /\ RanOnOk(k)
        /\ ops[k].cb = "reject"
        /\ inner[k].st = "rejected"
        /\ Idle(k)
        /\ prom[k] = Fulfilled(Err(Reason))

\* C6 - map on an Err settlement never invokes its callback and settles to
\* Err of exactly the original payload, whatever the continuation does
\* after the short-circuit branch.
MapKeepsErr ==
    \A k \in Combinators("map") :
        RanOnErr(k) =>
            /\ invoked[k] = <<>>
            /\ inner[k] = NoInner
            /\ prom[k] = Fulfilled(Err(prom[k - 1].val.err))

MapKeepsErrWitness ==
    \E k \in Combinators("map") :
        /\ RanOnErr(k)
        /\ prom[k - 1].val.err = Str("boom")
        /\ prom[k].st = "fulfilled"

\* the stages j+1 .. k are all map or andThen
MapAndThenOnly(j, k) == \A i \in (j + 1) .. k : ops[i].op \in {"map", "andThen"}

\* C7 - once a stage has settled to Err(e), no callback of a later map or
\* andThen stage is invoked, none creates or awaits a deferred computation,
\* and every such stage settles to that Err(e) without waiting for anything
\* but the microtask queue.
ErrSkipsLaterStages ==
    \A j \in Stages : \A k \in Stages :
        (j < k /\ SettledErr(j) /\ MapAndThenOnly(j, k)) =>
            /\ invoked[k] = <<>>
            /\ inner[k] = NoInner
            /\ k \notin waiting
            /\ k \notin escaped
            /\ prom[k].st \in {"pending", "fulfilled"}
            /\ prom[k].st = "fulfilled" => prom[k].val = prom[j].val
            /\ mq = <<>> => prom[k].st = "fulfilled"

\* a combinator's own callback failed and the stage after it was skipped
ErrSkipsLaterStagesWitness ==
    \E j \in Stages : \E k \in Stages :
        /\ 1 < j /\ j < k /\ MapAndThenOnly(j - 1, k)
        /\ invoked[j] # <<>>
        /\ SettledErr(j)
        /\ ops[k].cb \in {"promise", "promiseOk"}
        /\ prom[k].st = "fulfilled"

RECURSIVE Composed(_, _)
Composed(n, x) == IF n = 0 THEN x ELSE g(Composed(n - 1, x))

\* C8 - map on an Ok(x) settlement invokes its callback once, with x; a
\* plain return value u settles the ResultAsync to Ok(u); a returned
\* deferred computation keeps it pending until it fulfils with u, then
\* settles it to Ok(u); a chain of n such maps on Ok(x) settles to Ok of
\* the n callbacks composed.
MapAppliesCallback ==
    /\ \A k \in Combinators("map") :
          RanOnOk(k) =>
              /\ invoked[k] = <<prom[k - 1].val.ok>>
              /\ ops[k].cb = "value" => prom[k] = Fulfilled(Ok(g(prom[k - 1].val.ok)))
              /\ ops[k].cb = "promise" =>
                    /\ inner[k].st = "pending" => prom[k].st = "pending"
                    /\ prom[k].st = "fulfilled" =>
                          (inner[k].st = "fulfilled" /\ prom[k].val = Ok(g(prom[k - 1].val.ok)))
                    /\ Idle(k) => prom[k].st = "fulfilled"
    /\ \A k \in Stages :
          (/\ SettledOk(1)
           /\ \A i \in 2 .. k : ops[i].op = "map" /\ ops[i].cb \in {"value", "promise"}
           /\ prom[k].st = "fulfilled")
          => prom[k].val = Ok(Composed(k - 1, prom[1].val.ok))

\* a full chain of maps, the last returning a deferred computation
MapAppliesCallbackWitness ==
    /\ Len(ops) = MaxStages
    /\ \A i \in 2 .. MaxStages : ops[i].op = "map"
    /\ ops[2].cb = "value"
    /\ ops[MaxStages].cb = "promise"
    /\ SettledOk(MaxStages)
    /\ prom[MaxStages].val.ok.kind = "number"

\* what the callback cb of andThen returns, directly or through its
\* deferred computation, when invoked on x
ReturnedResult(cb, x) == IF cb \in {"ok", "promiseOk"} THEN Ok(g(x)) ELSE Err(BadErr)

ReturnsResult(cb) == cb \in {"ok", "err", "promiseOk", "promiseErr"}

\* andThen on an Err(e) settlement: the callback is not invoked, Err(e)
AndThenOnErr(k) ==
    RanOnErr(k) =>
        /\ invoked[k] = <<>>
        /\ prom[k] = Fulfilled(Err(prom[k - 1].val.err))

\* andThen whose callback is to be invoked with x: it is invoked with
\* nothing else, and has been once nothing of the stage is due; when it
\* returns a Result the ResultAsync is that Result, after the deferred
\* computation if any
AndThenAdoptsResult(k, x) ==
    /\ invoked[k] \in {<<>>, <<x>>}
    /\ Idle(k) => invoked[k] = <<x>>
    /\ (ops[k].cb \in {"ok", "err"} /\ invoked[k] # <<>>) =>
          prom[k] = Fulfilled(ReturnedResult(ops[k].cb, x))
    /\ ops[k].cb \in {"promiseOk", "promiseErr"} =>
          /\ inner[k].st = "pending" => prom[k].st = "pending"
          /\ prom[k].st # "pending" =>
                (prom[k].st = "fulfilled" /\ prom[k].val = ReturnedResult(ops[k].cb, x))
          /\ Idle(k) => prom[k].st = "fulfilled"

\* C9 (as stated) - andThen on an Ok(x) settlement invokes its callback
\* once with x and settles to exactly the Result the callback returns,
\* waiting for a pending deferred computation first; on an Err(e) settlement
\* it does not invoke the callback and settles to Err(e).
AndThenInvokesWithPayload ==
    \A k \in Combinators("andThen") :
        /\ RanOnOk(k) => AndThenAdoptsResult(k, prom[k - 1].val.ok)
        /\ AndThenOnErr(k)

\* C9 (amended) - as stated when the payload x is not itself a promise.
\* When x is a promise the callback is not invoked with x: it is invoked
\* once x has fulfilled, with the value x fulfilled with, and when x rejects
\* with r the callback is never invoked and the ResultAsync settles to
\* Err(r).
AndThenAwaitsPromisePayload ==
    \A k \in Combinators("andThen") :
        /\ (RanOnOk(k) /\ ~IsPromise(prom[k - 1].val.ok)) =>
              AndThenAdoptsResult(k, prom[k - 1].val.ok)
        /\ (RanOnOk(k) /\ IsPromise(prom[k - 1].val.ok)) =>
              /\ ext.st = "pending" => (invoked[k] = <<>> /\ prom[k].st = "pending")
              /\ (ext.st = "fulfilled" /\ Idle(k) /\ ReturnsResult(ops[k].cb)) =>
                    AndThenAdoptsResult(k, ext.val)
              /\ ext.st = "rejected" =>
                    /\ invoked[k] = <<>>
                    /\ Idle(k) => prom[k] = Fulfilled(Err(ext.val))
              /\ Len(invoked[k]) <= 1
        /\ AndThenOnErr(k)

\* both cases at once: a plain payload handed to a callback returning a
\* deferred computation, and a promise payload that has fulfilled
AndThenAwaitsPromisePayloadWitness ==
    \E k \in Combinators("andThen") :
        /\ RanOnOk(k)
        /\ IsPromise(prom[k - 1].val.ok)
        /\ ext.st = "fulfilled"
        /\ ops[k].cb = "promiseErr"
        /\ SettledErr(k)
        /\ invoked[k] = <<ext.val>>

\* C10 - mapErr on an Err(e) settlement invokes its callback once, with e,
\* and settles to Err of what the callback returns, or of what its deferred
\* computation fulfils with; a throw t or a rejection r gives Err(t) or
\* Err(r).  The ResultAsync never settles to Ok and never rejects.
MapErrAppliesCallback ==
    \A k \in Combinators("mapErr") :
        RanOnErr(k) =>
            /\ invoked[k] = <<prom[k - 1].val.err>>
            /\ prom[k].st # "rejected"
            /\ prom[k].st = "fulfilled" => In("err", prom[k].val)
            /\ ops[k].cb = "value" => prom[k] = Fulfilled(Err(Detail(prom[k - 1].val.err)))
            /\ ops[k].cb = "throw" => prom[k] = Fulfilled(Err(Thrown))
            /\ ops[k].cb \in {"promise", "reject"} =>
                  /\ inner[k].st = "pending" => prom[k].st = "pending"
                  /\ Idle(k) => prom[k] = Fulfilled(Err(IF ops[k].cb = "promise"
                                                       THEN Detail(prom[k - 1].val.err)
                                                       ELSE Reason))
                  /\ prom[k].st = "fulfilled" => inner[k].st # "pending"

\* two mapErr stages in a row: a fulfilled deferred computation, then a
\* callback that threw
MapErrAppliesCallbackWitness ==
    \E k \in Combinators("mapErr") :
        /\ RanOnErr(k)
        /\ ops[k].cb = "promise"
        /\ prom[k] = Fulfilled(Err(Detail(prom[k - 1].val.err)))
        /\ k < Len(ops)
        /\ ops[k + 1].op = "mapErr"
        /\ ops[k + 1].cb = "throw"
        /\ prom[k + 1] = Fulfilled(Err(Thrown))

\* C11 - mapErr on an Ok settlement: the callback is never invoked (so a
\* callback that would throw or return a deferred computation has no
\* effect), the ResultAsync settles to Ok of the same payload, and a map
\* attached behind it is handed that payload.
MapErrSkipsOk ==
    \A k \in Combinators("mapErr") :
        RanOnOk(k) =>
            /\ invoked[k] = <<>>
            /\ inner[k] = NoInner
            /\ k \notin escaped
            /\ prom[k] = Fulfilled(Ok(prom[k - 1].val.ok))
            /\ (k + 1 \in Combinators("map") /\ ran[k + 1] > 0) =>
                  invoked[k + 1] = <<prom[k - 1].val.ok>>

\* OkAsync(1).mapErr(throwing callback).map(f): f was handed 1
MapErrSkipsOkWitness ==
    \E k \in Combinators("mapErr") :
        /\ RanOnOk(k)
        /\ ops[k].cb = "throw"
        /\ prom[k - 1].val.ok = Num(1)
        /\ k + 1 \in Combinators("map")
        /\ invoked[k + 1] = <<Num(1)>>
        /\ prom[k + 1] = Fulfilled(Ok(g(Num(1))))

\* C12 - Result.fromPromise(p) and Result.fromPromiseUnknown(p): the
\* ResultAsync is pending while p is pending, never rejects, and once the
\* handler registered on p has run it is settled to Ok(v) when p fulfilled
\* with v and to Err(r) when p rejected with r.
FromSources == {k \in Stages : ops[k].op \in {"fromPromise", "fromPromiseUnknown"}}

FromPromiseSettles ==
    \A k \in FromSources :
        /\ prom[k].st # "rejected"
        /\ k \notin escaped
        /\ ext.st = "pending" => prom[k].st = "pending"
        /\ prom[k].st = "fulfilled" =>
              \/ ext.st = "fulfilled" /\ prom[k].val = Ok(ext.val)
              \/ ext.st = "rejected" /\ prom[k].val = Err(ext.val)
        /\ (ext.st # "pending" /\ Idle(k)) => prom[k].st = "fulfilled"

\* fromPromiseUnknown of a promise that rejected, with a map behind it that
\* passed the Err on
FromPromiseSettlesWitness ==
    /\ ops[1].op = "fromPromiseUnknown"
    /\ ext = [st |-> "rejected", val |-> Reason]
    /\ prom[1] = Fulfilled(Err(Reason))
    /\ 2 \in Combinators("map")
    /\ prom[2] = Fulfilled(Err(Reason))

\* the reaction stage k registered on stage k-1 is still in the queue
ContinuationQueued(k) == \E i \in DOMAIN mq : mq[i].type = "then" /\ mq[i].k = k

\* C13 - every ResultAsync is pending, settled to an Ok or settled to an
\* Err; once settled its state and payload never change; the continuation
\* a combinator registered on it runs exactly once, when it leaves pending,
\* and the user callback the continuation wraps is invoked at most once.
AsyncResultStateMachine ==
    \A k \in Stages :
        /\ prom[k].st \in {"pending", "fulfilled"}
        /\ prom[k].st = "fulfilled" =>
              /\ prom[k].val.kind = "Result"
              /\ SettledOk(k) # SettledErr(k)
        /\ Len(outcomes[k]) <= 1
        /\ prom[k].st = "pending" <=> outcomes[k] = <<>>
        /\ k > 1 =>
              /\ ran[k] <= 1
              /\ Len(invoked[k]) <= 1
              /\ ran[k] = 1 => prom[k - 1].st # "pending"
              /\ (prom[k - 1].st # "pending" /\ ~ContinuationQueued(k)) => ran[k] = 1

\* stage j is over: its ResultAsync has left pending and nothing of the
\* stage is still due
StageOver(j) ==
    /\ prom[j].st # "pending"
    /\ Idle(j)
    /\ ran[j] <= 1

\* C14 - the stages of one chain run strictly one after the other: a
\* ResultAsync is settled only when the deferred computation its callback
\* returned has settled, and the continuation of stage k runs, and its
\* callback is invoked, only when every earlier stage is over, so no earlier
\* callback can still be invoked and no two stages are in progress at once.
StagesRunInOrder ==
    \A k \in Stages :
        /\ prom[k].st # "pending" => (inner[k].st # "pending" /\ k \notin waiting)
        /\ (ran[k] > 0 \/ invoked[k] # <<>>) => \A j \in 1 .. k - 1 : StageOver(j)

\* a map whose callback returned a deferred computation, and behind it an
\* andThen whose callback was invoked with what that computation fulfilled with
StagesRunInOrderWitness ==
    /\ Len(ops) = 3
    /\ ops[2].op = "map"
    /\ ops[2].cb = "promise"
    /\ ops[3].op = "andThen"
    /\ invoked[2] = <<Num(0)>>
    /\ inner[2].st = "fulfilled"
    /\ invoked[3] = <<g(Num(0))>>

(***************************************************************************)
(* Properties of the synchronous pipeline.                                 *)
(***************************************************************************)

\* C1 - variant exclusivity: on every Result the caller can hold (built by
\* Ok or Err from any payload, or returned by any sequence of map, mapErr,
\* and, andThen, or, orElse) neither isOk() nor isErr() throws, and
\* isErr() is the negation of isOk().
VariantExclusivity ==
    /\ cur.kind = "Result"
    /\ ~isOk(cur).thrown
    /\ ~isErr(cur).thrown
    /\ isErr(cur).val = ~isOk(cur).val

\* a Result with an undefined payload, returned by the last of MaxOps calls
VariantExclusivityWitness ==
    /\ nops = MaxOps
    /\ ~last.out.thrown
    /\ last.op \in {"map", "mapErr", "and", "andThen", "or", "orElse"}
    /\ cur = last.out.val
    /\ isErr(cur).val
    /\ cur.err = Undefined

\* C2 - andThen short-circuit: in a pipeline r.andThen(f1)...andThen(fn) a
\* step whose receiver is Err(e) does not invoke its callback and returns
\* Err(e); once a step has returned Err(e), no later callback is invoked
\* and every later step returns that same Err(e); a step whose receiver is
\* Ok(x) invokes its callback once and returns what it returned, so the
\* pipeline's value is the last step's result.
AndThenShortCircuit ==
    /\ \A i \in DOMAIN run :
        /\ In("err", run[i].recv) =>
              (run[i].calls = 0 /\ run[i].out = Err(run[i].recv.err))
        /\ In("ok", run[i].recv) =>
              (run[i].calls = 1 /\ run[i].out = CallResult(run[i].cb, run[i].recv.ok).val)
        /\ i > 1 => run[i].recv = run[i - 1].out
        /\ \A j \in DOMAIN run :
              (i < j /\ In("err", run[i].out)) =>
                  (run[j].calls = 0 /\ run[j].out = run[i].out)
    /\ run # <<>> => cur = run[Len(run)].out

\* a pipeline of MaxOps steps on an Ok whose first callback returned Err
AndThenShortCircuitWitness ==
    /\ Len(run) = MaxOps
    /\ In("ok", run[1].recv)
    /\ In("err", run[1].out)
    /\ run[Len(run)].calls = 0
    /\ cur = Err(BadErr)

\* C15 - unwrap() on Ok(x) returns x and on Err(e) throws an Error whose
\* message is the fixed text followed by JSON.stringify(e); unwrapErr() on
\* Err(e) returns e and on Ok(x) throws with its own fixed text followed
\* by JSON.stringify(x).  The call leaves the receiver as it was, so every
\* further call has the same outcome.
UnwrapText    == "Called Result.unwrap() on an Err value: "
UnwrapErrText == "Called Result.unwrapErr() on an Ok value: "

ExtractionOutcome ==
    /\ last.op = "unwrap" =>
          /\ In("ok", last.recv) => last.out = NotCalled(Normal(last.recv.ok))
          /\ In("err", last.recv) =>
                last.out = NotCalled(Throw(ErrorObj(UnwrapText \o Stringify(last.recv.err))))
          /\ last.recv = Err(Str("boom")) => last.out.val.message = UnwrapText \o "\"boom\""
          /\ last.recv = Err(Ok(Num(0))) => last.out.val.message = UnwrapText \o "{\"ok\":0}"
    /\ last.op = "unwrapErr" =>
          /\ In("err", last.recv) => last.out = NotCalled(Normal(last.recv.err))
          /\ In("ok", last.recv) =>
                last.out = NotCalled(Throw(ErrorObj(UnwrapErrText \o Stringify(last.recv.ok))))
          /\ last.recv = Ok(Num(1)) => last.out.val.message = UnwrapErrText \o "1"
          /\ last.recv = Ok(Null) => last.out.val.message = UnwrapErrText \o "null"
    /\ last.op \in {"unwrap", "unwrapErr"} =>
          /\ cur = last.recv
          /\ again # "differs"

\* Err("boom").unwrap() threw the same error twice in a row
ExtractionOutcomeWitness ==
    /\ last.op = "unwrap"
    /\ again = "same"
    /\ last.recv = Err(Str("boom"))
    /\ last.out.thrown
    /\ last.out.val = ErrorObj("Called Result.unwrap() on an Err value: \"boom\"")

\* C16 - expect(msg) on Ok(x) returns x and on Err(e) throws an Error whose
\* message is msg, ": " and JSON.stringify(e); expectErr(msg) on Err(e)
\* returns e and on Ok(x) throws with msg, ": " and JSON.stringify(x).
ExpectOutcome ==
    /\ last.op = "expect" =>
          /\ In("ok", last.recv) => last.out = NotCalled(Normal(last.recv.ok))
          /\ In("err", last.recv) =>
                last.out = NotCalled(Throw(ErrorObj(last.arg.s \o ": " \o Stringify(last.recv.err))))
          /\ (last.recv = Err(Str("boom")) /\ last.arg = Str("Testing expect")) =>
                last.out.val.message = "Testing expect: \"boom\""
    /\ last.op = "expectErr" =>
          /\ In("err", last.recv) => last.out = NotCalled(Normal(last.recv.err))
          /\ In("ok", last.recv) =>
                last.out = NotCalled(Throw(ErrorObj(last.arg.s \o ": " \o Stringify(last.recv.ok))))
          /\ (last.recv = Ok(Num(1)) /\ last.arg = Str("Testing expectErr")) =>
                last.out.val.message = "Testing expectErr: 1"
    /\ last.op \in {"expect", "expectErr"} => cur = last.recv

\* Err("boom").expect("Testing expect") threw
ExpectOutcomeWitness ==
    /\ last.op = "expect"
    /\ last.arg = Str("Testing expect")
    /\ last.recv = Err(Str("boom"))
    /\ last.out.thrown
    /\ last.out.val = ErrorObj("Testing expect: \"boom\"")

\* the methods that are not extraction operations
NonExtraction ==
    {"isOk", "isErr", "isOkAnd", "isErrAnd", "map", "mapErr", "mapOr", "mapOrElse",
     "and", "andThen", "or", "orElse", "unwrapOr", "unwrapOrElse", "contains", "containsErr"}

\* the last call threw what a callback it invoked threw
CallbackThrew ==
    /\ last.out.thrown
    /\ last.out.calls + last.out.alt = 1
    /\ last.out.val = Thrown

\* C17 - a method that is not an extraction operation throws only what a
\* callback it invoked threw, on an Ok and on an Err alike; unwrap and
\* expect throw exactly on an Err, unwrapErr and expectErr exactly on an Ok.
OnlyExtractionThrows ==
    /\ last.op \in NonExtraction => (last.out.thrown => CallbackThrew)
    /\ last.op \in {"unwrap", "expect"} => (last.out.thrown <=> In("err", last.recv))
    /\ last.op \in {"unwrapErr", "expectErr"} => (last.out.thrown <=> In("ok", last.recv))

\* Err("boom").contains(0) returned false
OnlyExtractionThrowsWitness ==
    /\ last.op = "contains"
    /\ last.recv = Err(Str("boom"))
    /\ last.arg = Num(0)
    /\ last.out = NotCalled(Normal(False))

\* C18 - new Result(data) fails, and yields no instance, when data has
\* neither the ok nor the err property and when it has both; it succeeds
\* exactly when data has one of the two, and the instance then has that one.
ConstructorChecksTags ==
    last.op = "construct" =>
        /\ last.out.thrown <=> Cardinality(last.arg.has) # 1
        /\ last.out.thrown => cur = last.recv
        /\ ~last.out.thrown => (cur = last.out.val /\ cur.has = last.arg.has)

\* C19 - no method mutates its receiver or a Result handed to it: after
\* every call, one that threw included, the receiver and the argument have
\* the variant and payload they had before; a query or an extraction leaves
\* the caller holding the same Result; map and mapErr return a Result that
\* is neither the receiver nor an argument.
NoMutation ==
    last.op # "new" =>
        /\ last.recvAfter = last.recv
        /\ last.argAfter = last.arg
        /\ (last.out.thrown \/ last.op \notin Chaining) => cur = last.recv
        /\ (last.op \in {"map", "mapErr"} /\ ~last.out.thrown) => last.out.same = "none"

\* Ok(0).map(f) returned Ok(f(0)), a different content, and the receiver is
\* still Ok(0)
NoMutationWitness ==
    /\ last.op = "map"
    /\ last.recv = Ok(Num(0))
    /\ last.out.val = Ok(g(Num(0)))
    /\ last.out.val # last.recv
    /\ last.recvAfter = Ok(Num(0))

\* C20 - Ok(x).map(f) invokes f exactly once and is Ok(f(x)); Err(e).map(f)
\* does not invoke f and is equal to Err(e); n maps in a row on Ok(x) give
\* Ok of the callback applied n times to x.
MapApplies ==
    /\ last.op = "map" =>
          /\ In("ok", last.recv) =>
                /\ last.out.calls = 1
                /\ last.arg = Str("value") => last.out = Called(Normal(Ok(g(last.recv.ok))))
          /\ In("err", last.recv) =>
                /\ last.out = NotCalled(Normal(Err(last.recv.err)))
                /\ last.out.val = last.recv
    /\ In("ok", maps.from) => cur = Ok(Composed(maps.n, maps.from.ok))

\* MaxOps maps in a row on Ok(0)
MapAppliesWitness ==
    /\ maps.from = Ok(Num(0))
    /\ maps.n = MaxOps
    /\ maps.n >= 2
    /\ last.op = "map"
    /\ last.out.calls = 1
    /\ cur = Ok(g(g(Composed(MaxOps - 2, Num(0)))))

\* the number of map calls among the methods of seq
RECURSIVE MapsIn(_)
MapsIn(seq) ==
    IF seq = <<>> THEN 0
    ELSE (IF Head(seq) = "map" THEN 1 ELSE 0) + MapsIn(Tail(seq))

\* C21 - mapErr never touches an Ok: Ok(x).mapErr(g) is Ok(x) and g is not
\* invoked; Err(e).mapErr(g) invokes g once and is Err(g(e)); in a run of
\* map and mapErr calls on Ok(x), in any order, only the maps count, so
\* Ok(x).map(f).mapErr(g) and Ok(x).mapErr(g).map(f) are both Ok(f(x)).
MapErrLeavesOk ==
    /\ last.op = "mapErr" =>
          /\ In("ok", last.recv) =>
                /\ last.out = NotCalled(Normal(Ok(last.recv.ok)))
                /\ last.out.val = last.recv
          /\ In("err", last.recv) =>
                /\ last.out.calls = 1
                /\ last.arg = Str("value") => last.out = Called(Normal(Err(Detail(last.recv.err))))
    /\ In("ok", trip.from) => cur = Ok(Composed(MapsIn(trip.seq), trip.from.ok))
    /\ (In("ok", trip.from) /\ trip.seq \in {<<"map", "mapErr">>, <<"mapErr", "map">>}) =>
          cur = Ok(g(trip.from.ok))

\* Ok(0).map(f).mapErr(g) with a g that would throw
MapErrLeavesOkWitness ==
    /\ trip.from = Ok(Num(0))
    /\ trip.seq = <<"map", "mapErr">>
    /\ last.arg = Str("throw")
    /\ cur = Ok(g(Num(0)))

\* C22 - self.and(other): when self is Err(e) the result is Err(e) for every
\* other; when self is Ok the result is equal to other, Ok or Err; of two
\* Errs the result carries self's error.  No callback is involved.
AndSelects ==
    last.op = "and" =>
        /\ ~last.out.thrown
        /\ last.out.calls = 0
        /\ In("err", last.recv) => last.out.val = Err(last.recv.err)
        /\ In("ok", last.recv) => last.out.val = last.arg
        /\ (In("err", last.recv) /\ In("err", last.arg)) => last.out.val.err = last.recv.err

\* Err("boom").and(Err(0)) is Err("boom")
AndSelectsWitness ==
    /\ last.op = "and"
    /\ last.recv = Err(Str("boom"))
    /\ last.arg = Err(Num(0))
    /\ last.out.val = Err(Str("boom"))
    /\ cur = Err(Str("boom"))

\* C23 - or / orElse: on Ok(x), self.or(other) and self.orElse(f) are both
\* Ok(x) and f is not invoked; on Err(e), self.or(other) is other, Ok or
\* Err, and self.orElse(f) invokes f once with e and is what f returned;
\* in a run of orElse calls no callback is invoked after the first Ok.
OrSelects ==
    /\ last.op = "or" =>
          /\ ~last.out.thrown
          /\ last.out.calls = 0
          /\ In("ok", last.recv) => last.out.val = last.recv
          /\ In("err", last.recv) => last.out.val = last.arg
    /\ last.op = "orElse" =>
          /\ In("ok", last.recv) => last.out = NotCalled(Normal(Ok(last.recv.ok)))
          /\ In("err", last.recv) =>
                /\ last.out.calls = 1
                /\ last.arg = Str("ok") => last.out = Called(Normal(Ok(g(last.recv.err))))
                /\ last.arg = Str("err") => last.out = Called(Normal(Err(BadErr)))
                /\ last.arg = Str("throw") => last.out = Called(Throw(Thrown))
    /\ \A i \in DOMAIN elses :
          /\ i > 1 => elses[i].recv = elses[i - 1].out
          /\ In("ok", elses[i].recv) => (elses[i].calls = 0 /\ elses[i].out = elses[i].recv)
          /\ In("err", elses[i].recv) => elses[i].calls = 1
          /\ \A j \in DOMAIN elses :
                (i < j /\ In("ok", elses[i].out)) =>
                    (elses[j].calls = 0 /\ elses[j].out = elses[i].out)
    /\ elses # <<>> => cur = elses[Len(elses)].out

\* a run of orElse calls on an Err: the first callback returned an Err, the
\* second an Ok, and the last call invoked nothing
OrSelectsWitness ==
    /\ Len(elses) >= 3
    /\ In("err", elses[1].recv)
    /\ elses[1].out = Err(BadErr)
    /\ elses[2].calls = 1
    /\ In("ok", elses[2].out)
    /\ elses[Len(elses)].calls = 0
    /\ cur = elses[2].out

\* C24 - unwrapOr(a) returns x on Ok(x) and a on Err(e); unwrapOrElse(f)
\* returns x on Ok(x) without invoking f, and on Err(e) invokes f once and
\* returns f(e); neither throws unless f does.
UnwrapOrOutcome ==
    /\ last.op = "unwrapOr" =>
          /\ In("ok", last.recv) => last.out = NotCalled(Normal(last.recv.ok))
          /\ In("err", last.recv) => last.out = NotCalled(Normal(last.arg))
    /\ last.op = "unwrapOrElse" =>
          /\ In("ok", last.recv) => last.out = NotCalled(Normal(last.recv.ok))
          /\ In("err", last.recv) =>
                /\ last.out.calls = 1
                /\ last.arg = Str("value") => last.out = Called(Normal(Detail(last.recv.err)))
          /\ last.out.thrown => (last.arg = Str("throw") /\ In("err", last.recv))
    /\ last.op \in {"unwrapOr", "unwrapOrElse"} => cur = last.recv

\* Ok(1).unwrapOrElse(f) returned 1 with an f that would throw
UnwrapOrOutcomeWitness ==
    /\ last.op = "unwrapOrElse"
    /\ last.arg = Str("throw")
    /\ last.recv = Ok(Num(1))
    /\ last.out = NotCalled(Normal(Num(1)))

\* C25 - mapOr(alt, f) returns f(x) on Ok(x) and alt on Err(e) without
\* invoking f; mapOrElse(onErr, onOk) returns onOk(x) on Ok(x) and onErr(e)
\* on Err(e); every call of mapOrElse invokes exactly one of its two
\* callbacks, once.
MapOrOutcome ==
    /\ last.op = "mapOr" =>
          /\ In("ok", last.recv) =>
                /\ last.out.calls = 1
                /\ last.arg.second = Str("value") => last.out = Called(Normal(g(last.recv.ok)))
          /\ In("err", last.recv) => last.out = NotCalled(Normal(last.arg.first))
    /\ last.op = "mapOrElse" =>
          /\ last.out.calls + last.out.alt = 1
          /\ In("ok", last.recv) =>
                /\ last.out.calls = 1
                /\ last.arg.second = Str("value") => last.out = Called(Normal(g(last.recv.ok)))
          /\ In("err", last.recv) =>
                /\ last.out.alt = 1
                /\ last.arg.first = Str("value") => last.out = CalledAlt(Normal(Detail(last.recv.err)))
    /\ last.op \in {"mapOr", "mapOrElse"} => cur = last.recv

\* Err("boom").mapOrElse(onErr, onOk) returned onErr("boom") with an onOk
\* that would throw
MapOrOutcomeWitness ==
    /\ last.op = "mapOrElse"
    /\ last.recv = Err(Str("boom"))
    /\ last.arg = Args(Str("value"), Str("throw"))
    /\ last.out = CalledAlt(Normal(Detail(Str("boom"))))

\* C26 - contains(x) is true exactly when the Result is an Ok whose payload
\* is structurally equal to x, so false on every Err; containsErr(x) is
\* true exactly when it is an Err whose payload is structurally equal to x,
\* so false on every Ok.  A record equal in value to the payload but not
\* the same object compares equal; a record whose field differs in value
\* or in type compares unequal.
ContainsDeepEquality ==
    /\ last.op = "contains" =>
          /\ last.out = NotCalled(Normal(Bool(In("ok", last.recv) /\ last.recv.ok = last.arg)))
          /\ last.recv = Ok(Detail(Num(1))) =>
                /\ last.arg = Detail(Num(1)) => last.out.val = True
                /\ last.arg = Detail(Num(0)) => last.out.val = False
                /\ last.arg = Detail(Str("1")) => last.out.val = False
    /\ last.op = "containsErr" =>
          /\ last.out = NotCalled(Normal(Bool(In("err", last.recv) /\ last.recv.err = last.arg)))
          /\ last.recv = Err(Detail(Num(1))) =>
                /\ last.arg = Detail(Num(1)) => last.out.val = True
                /\ last.arg = Detail(Num(0)) => last.out.val = False
                /\ last.arg = Detail(Str("1")) => last.out.val = False
    /\ last.op \in {"contains", "containsErr"} => cur = last.recv

\* Ok({ error: 1 }).contains({ error: 1 }) returned true
ContainsDeepEqualityWitness ==
    /\ last.op = "contains"
    /\ last.recv = Ok(Detail(Num(1)))
    /\ last.arg = Detail(Num(1))
    /\ last.out = NotCalled(Normal(True))

\* C27 - the synchronous map does not catch what its callback throws: when
\* Ok(x).map(f) is called and f throws, the call throws that same error, no
\* Result comes back and the receiver is as it was.
MapPropagatesThrow ==
    (last.op = "map" /\ last.arg = Str("throw") /\ In("ok", last.recv)) =>
        /\ last.out = Called(Throw(Thrown))
        /\ cur = last.recv
        /\ last.recvAfter = last.recv

\* Ok(1).map(throwing f) threw f's error, and the caller still holds Ok(1)
MapPropagatesThrowWitness ==
    /\ last.op = "map"
    /\ last.arg = Str("throw")
    /\ last.recv = Ok(Num(1))
    /\ last.out.thrown
    /\ last.out.val = Thrown
    /\ cur = Ok(Num(1))

\* the mapErr stages whose receiver rejected instead of fulfilling with a
\* Result
MapErrOnRejected == {k \in Combinators("mapErr") : prom[k - 1].st = "rejected"}

\* C30 - when mapErr(f) is applied to a ResultAsync whose promise rejects
\* with reason r, the ResultAsync mapErr returned never rejects and no
\* rejection is left without a handler; once its handlers have run it is
\* settled as Err(r), and f was not invoked.
MapErrRecoversRejection ==
    \A k \in MapErrOnRejected :
        /\ prom[k].st # "rejected"
        /\ k \notin escaped
        /\ invoked[k] = <<>>
        /\ ran[k] = 0
        /\ Idle(k) =>
              /\ prom[k].st = "fulfilled"
              /\ prom[k].val = Err(prom[k - 1].val)
              /\ outcomes[k] = <<[st |-> "fulfilled", val |-> Err(prom[k - 1].val)]>>

\* andThen adopted a rejecting promise, and the mapErr behind it, given a
\* callback that would have returned a value, is settled as Err(reason)
MapErrRecoversRejectionWitness ==
    \E k \in MapErrOnRejected :
        /\ ops[k].cb = "value"
        /\ prom[k - 1].val = Reason
        /\ prom[k] = Fulfilled(Err(Reason))
        /\ invoked[k] = <<>>
        /\ Idle(k)

\* the ResultAsync of stage k is what the first call of its resolve function
\* made it: fulfilled with that call's argument, or following the promise the
\* call was handed
MadeByFirstCall(k) ==
    LET x == resolves[k][1]
    IN IF IsPromise(x)
       THEN /\ prom[k].locked
            /\ prom[k].follows
            /\ \/ prom[k].st = "pending"
               \/ prom[k].st = inner[k].st /\ prom[k].val = inner[k].val
            /\ Len(outcomes[k]) <= 1
       ELSE /\ prom[k] = Fulfilled(x)
            /\ outcomes[k] = <<[st |-> "fulfilled", val |-> x]>>

\* C29 - a ResultAsync returned by map, mapErr or andThen is settled by the
\* first call of its resolve function only: it stays pending until that
\* call, and whatever later calls the continuation, its catch handler or an
\* inner promise handler make, the variant and payload of the first call
\* stay.
FirstResolveWins ==
    \A k \in Stages :
        (k > 1) =>
            IF resolves[k] = <<>>
            THEN prom[k] = Pending
            ELSE MadeByFirstCall(k)

\* map on an Err: the short-circuit branch called resolve(Err(e)), control
\* fell into the try block, unwrap threw and the catch handler called resolve
\* with Err of that error; the ResultAsync is Err(e)
FirstResolveWinsWitness ==
    \E k \in Combinators("map") :
        /\ Len(resolves[k]) = 2
        /\ resolves[k][1] # resolves[k][2]
        /\ In("err", prom[k - 1].val)
        /\ prom[k] = Fulfilled(Err(prom[k - 1].val.err))

\* stage k is a source followed by map and mapErr steps only
MapChain(k) ==
    /\ k \in Stages
    /\ \A i \in 2 .. k : ops[i].op \in {"map", "mapErr"}

\* the ResultAsync of stage k is fulfilled with a Result, Ok or Err
SettledResult(k) == k \in Stages /\ (SettledOk(k) \/ SettledErr(k))

\* every such ResultAsync made so far is settled with a Result
MapChainsSettled == \A k \in Stages : MapChain(k) => SettledResult(k)

\* no such ResultAsync is rejected or the place of a rejection without a
\* handler
MapChainsNeverReject ==
    \A k \in Stages : MapChain(k) => (prom[k].st # "rejected" /\ k \notin escaped)

\* C28 - every ResultAsync built from OkAsync, ErrAsync, fromPromise or
\* fromPromiseUnknown and followed by map and mapErr steps only eventually
\* settles with a Result and is never rejected nor leaves a rejection
\* without a handler, whatever the callbacks do (return a value, return a
\* promise that fulfils or rejects, throw), given that the source promise
\* and the promises the callbacks return settle.  A stage, once made, stays
\* in the chain, and a new stage starts pending: from some point on no stage
\* is added and every stage of the kind is settled for good.
MapChainSettles == <>[]MapChainsSettled /\ []MapChainsNeverReject

\* fromPromise of a rejecting promise, then a map, then a mapErr whose
\* callback returned a rejecting promise: all three are settled, the last as
\* Err(reason)
MapChainSettlesWitness ==
    /\ Len(ops) = 3
    /\ MapChain(3)
    /\ ops[1].op = "fromPromise"
    /\ ops[2].op = "map"
    /\ ops[3].op = "mapErr" /\ ops[3].cb = "reject"
    /\ \A k \in 1 .. 3 : SettledResult(k)
    /\ prom[3] = Fulfilled(Err(Reason))
    /\ inner[3].st = "rejected"

====
